---------------------------- MODULE Spec2Model ----------------------------
(***************************************************************************)
(* Session components of the SharePoint access examples:                   *)
(*   - SharePointAppOnlyAuth + SharePointRestClient (legacy, app-only)     *)
(*   - SharePointGraphClient                        (MSAL / Graph)         *)
(*   - SharePointOffice365Client, SharePointUserAuth (resource context)    *)
(* Every method is one action.  The remote services, the MSAL library,     *)
(* the Office365 library and the local file system are the environment:    *)
(* their answers are drawn from small sets by \E.                          *)
(***************************************************************************)
EXTENDS Naturals, Sequences, FiniteSets, TLC

\* Number of distinct bearer tokens the identity provider can hand out.
NumTokens == 2
\* The longest WWW-Authenticate header drawn, in lexemes.
MaxHeader == 5
\* The most lists a remote list collection holds.
MaxLists == 3
\* The longest path of a site URL drawn, in lexemes.
MaxPath == 4

\* response.status_code == 200
HTTP_OK == 200

ErrStatuses == {401, 500}

(***************************************************************************)
(* Python values                                                           *)
(***************************************************************************)
None      == "<None>"
PyTrue    == "True"
PyFalse   == "False"
EmptyDict == "{}"
EmptyList == "[]"
RetJson   == "<json>"
RetBytes  == "<bytes>"
RetList   == "<list>"
RetExcel  == "<excel-list>"
RetTable  == "<dataframe>"
RetCtx    == "<ClientContext>"

Digits == <<"1", "2", "3", "4", "5", "6", "7", "8", "9">>
Tokens == {"tok" \o Digits[i] : i \in 1..NumTokens}
TokenOrNone == Tokens \cup {None}

\* Python truthiness of a str-or-None / object-or-None field
Truthy(v) == v # None /\ v # ""

\* str(v) as used by an f-string
PyStr(v) == IF v = None THEN "None" ELSE v

(***************************************************************************)
(* Text.  A str is the sequence of its lexemes: each separator the code    *)
(* searches for ("//", ".", 'realm="', ...) is made of whole lexemes, and  *)
(* the text between separators is one opaque lexeme per word.              *)
(***************************************************************************)
\* sep occurs in s at position i.
StartsAt(s, sep, i) ==
    /\ i >= 1 /\ i + Len(sep) - 1 <= Len(s)
    /\ SubSeq(s, i, i + Len(sep) - 1) = sep

\* str.find, one-based; 0 when sep does not occur.
Find(s, sep) ==
    IF \E i \in 1..Len(s) : StartsAt(s, sep, i)
    THEN CHOOSE i \in 1..Len(s) :
            /\ StartsAt(s, sep, i)
            /\ \A j \in 1..(i - 1) : ~StartsAt(s, sep, j)
    ELSE 0

\* `sub in s`
Contains(s, sub) == Find(s, sub) # 0

\* str.split(sep): the list of the parts, left to right.
RECURSIVE Split(_, _)
Split(s, sep) ==
    LET i == Find(s, sep)
    IN IF i = 0 THEN <<s>>
       ELSE <<SubSeq(s, 1, i - 1)>> \o Split(SubSeq(s, i + Len(sep), Len(s)), sep)

\* All texts of at most n lexemes over an alphabet.
Texts(alphabet, n) == UNION {[1..k -> alphabet] : k \in 0..n}


(***************************************************************************)
(* Environment answers                                                     *)
(***************************************************************************)
\* What the network gives back to requests.post(sts_url, ...): a transport
\* fault, or a response with a status and a body.  json = FALSE is a body
\* response.json() cannot parse; access_token = None is a JSON body without
\* the 'access_token' key.
TokenResponses ==
    {[net |-> "fault", status |-> 0, json |-> FALSE, access_token |-> None]}
    \cup {[net |-> "ok", status |-> s, json |-> TRUE, access_token |-> t] :
             s \in {HTTP_OK} \cup ErrStatuses, t \in TokenOrNone}
    \cup {[net |-> "ok", status |-> s, json |-> FALSE, access_token |-> None] :
             s \in {HTTP_OK} \cup ErrStatuses}

\* What the network gives back to a read GET.
ReadResponses ==
    {[net |-> "fault", status |-> 0, json |-> FALSE]}
    \cup {[net |-> "ok", status |-> HTTP_OK, json |-> j] : j \in BOOLEAN}
    \cup {[net |-> "ok", status |-> s, json |-> TRUE] : s \in ErrStatuses}

\* What an MSAL acquire_token_* call gives back: None, an empty dict, a dict
\* with an access_token, a dict with an error description, or an exception.
MsalResults ==
    {[kind |-> k, access_token |-> None] : k \in {"none", "empty", "error", "raise"}}
    \cup {[kind |-> "token", access_token |-> t] : t \in Tokens}

\* Outcome of the local file system calls of a download.
FsOutcomes == {"ok", "open_fail", "write_fail"}

LocalPaths == {"./book.xlsx", "/tmp/book.xlsx"}

(***************************************************************************)
(* State                                                                   *)
(***************************************************************************)
VARIABLES
    script,      \* which of the three example scripts this process runs
    la_token,    \* SharePointAppOnlyAuth.access_token
    rc_live,     \* a SharePointRestClient has been constructed
    rc_token,    \* SharePointRestClient.access_token
    g_token,     \* SharePointGraphClient.access_token
    o_ctx,       \* SharePointOffice365Client.ctx
    u_ctx,       \* SharePointUserAuth.ctx
    files,       \* local paths that exist
    acqFailed,   \* sessions whose latest acquisition failed, token still unset
    authed,      \* sessions on which an acquisition has succeeded
    prevAcq,     \* the previous call, if it was a successful acquisition
    last,        \* what the latest call did
    io           \* the arguments and result of a call checked on its own

vars == <<script, la_token, rc_live, rc_token, g_token, o_ctx, u_ctx, files,
          acqFailed, authed, prevAcq, last, io>>

\* No call is being checked on its own.
NoIO == [op |-> "none", done |-> FALSE]

NoAcq == [comp |-> "none", token |-> None]

\* The record of one call: the object and method, the token (or ctx) at
\* entry, the get_access_token calls made inside it, the calls into MSAL,
\* the HTTP requests sent, the status of the read (or token) response (0:
\* none received), the kind of fault the environment injected, the returned
\* value and whether an exception reached the caller.
\* failedBefore: an earlier acquisition of this session failed and its token
\* is still unset at entry.  after: the token returned by the call just
\* before, when that was a successful acquisition of this session (else
\* None).  offered: the access_token the token endpoint's answer carried.
Call(comp, op, kind, entry, acquires, calls, reqs, status, fault, ret, raised) ==
    [comp |-> comp, op |-> op, kind |-> kind, entry |-> entry,
     acquires |-> acquires, calls |-> calls, reqs |-> reqs,
     status |-> status, fault |-> fault, ret |-> ret, raised |-> raised,
     failedBefore |-> comp \in acqFailed,
     after |-> IF prevAcq.comp = comp THEN prevAcq.token ELSE None,
     offered |-> None]

Request(method, headers) == [method |-> method, headers |-> headers]

(***************************************************************************)
(* Legacy strategy: SharePointAppOnlyAuth                                  *)
(***************************************************************************)
Quote == "\""
RealmEq == <<"realm", "=">>
RealmQuote == <<"realm", "=", Quote>>
SharePointCom == <<".", "sharepoint", ".", "com">>

\* The answer to GET <site_url>/_vti_bin/client.svc: requests.get raises, or
\* a response with or without a WWW-Authenticate header.
HeaderLexemes == {"realm", "=", Quote, "x"}
RealmResponses ==
    {[net |-> "fault", has_header |-> FALSE, header |-> <<>>],
     [net |-> "ok", has_header |-> FALSE, header |-> <<>>]}
    \cup {[net |-> "ok", has_header |-> TRUE, header |-> h] :
             h \in Texts(HeaderLexemes, MaxHeader)}

\* _get_realm: one GET; the realm is cut out of the WWW-Authenticate header
\* with split('realm="')[1].split('"')[0]; the fallback is returned when the
\* header or 'realm=' is missing and from the except branch.  caught: an
\* exception was raised inside and swallowed.
GetRealm(tenant_name, resp) ==
    LET fallback == tenant_name \o SharePointCom
        base == [reqs |-> <<Request("GET", {})>>, raised |-> FALSE]
    IN IF resp.net = "fault"
       THEN base @@ [ret |-> fallback, caught |-> TRUE]
       ELSE IF resp.has_header /\ Contains(resp.header, RealmEq)
       THEN LET parts == Split(resp.header, RealmQuote)
            IN IF Len(parts) < 2
               THEN \* [1] raises IndexError: 'realm=' without 'realm="'
                    base @@ [ret |-> fallback, caught |-> TRUE]
               ELSE base @@ [ret |-> Split(parts[2], <<Quote>>)[1],
                             caught |-> FALSE]
       ELSE base @@ [ret |-> fallback, caught |-> FALSE]

\* SharePointAppOnlyAuth.__init__: tenant_name is
\* site_url.split('//')[1].split('.')[0], which raises IndexError out of the
\* constructor when the URL holds no '//'; then realm = _get_realm().
\* realm_calls counts the _get_realm calls made.
LegacyInit(site_url, resp) ==
    LET after == Split(site_url, <<"/", "/">>)
    IN IF Len(after) < 2
       THEN [raised |-> TRUE, access_token |-> None, tenant_name |-> <<>>,
             realm |-> <<>>, realm_calls |-> 0, reqs |-> <<>>,
             realm_raised |-> FALSE]
       ELSE LET tenant_name == Split(after[2], <<".">>)[1]
                r == GetRealm(tenant_name, resp)
            IN [raised |-> r.raised, access_token |-> None,
                tenant_name |-> tenant_name, realm |-> r.ret,
                realm_calls |-> 1, reqs |-> r.reqs,
                realm_raised |-> r.raised]

TokenPostHeaders == {<<"Content-Type", "application/x-www-form-urlencoded">>}

LegacyGetAccessToken_ClearsOnFailure(token, resp) ==
    LET ok == resp.net = "ok" /\ resp.status = HTTP_OK
              /\ resp.json /\ resp.access_token # None
    IN [token |-> IF ok THEN resp.access_token ELSE None,
        ret   |-> IF ok THEN resp.access_token ELSE None,
        reqs  |-> <<Request("POST", TokenPostHeaders)>>,
        status |-> IF resp.net = "ok" THEN resp.status ELSE 0,
        fault |-> IF ok THEN "none" ELSE "status", raised |-> FALSE]

\* get_access_token: one POST to the STS endpoint inside try/except.
LegacyGetAccessToken(token, resp) ==
    LET post == <<Request("POST", TokenPostHeaders)>>
    IN IF resp.net = "fault"
       THEN \* requests.post raises -> except Exception -> return None
            [token |-> token, ret |-> None, reqs |-> post, status |-> 0,
             fault |-> "transport", raised |-> FALSE]
       ELSE IF resp.status = HTTP_OK
       THEN IF resp.json /\ resp.access_token # None
            THEN [token |-> resp.access_token, ret |-> resp.access_token,
                  reqs |-> post, status |-> resp.status,
                  fault |-> "none", raised |-> FALSE]
            ELSE \* response.json() or token_data['access_token'] raises
                 [token |-> token, ret |-> None, reqs |-> post,
                  status |-> resp.status, fault |-> "body", raised |-> FALSE]
       ELSE [token |-> token, ret |-> None, reqs |-> post,
             status |-> resp.status, fault |-> "status", raised |-> FALSE]

CreateClientContext_AlwaysAcquire(token, resp) ==
    LET acq == LegacyGetAccessToken(token, resp)
    IN [token |-> acq.token, acquires |-> 1,
        reqs |-> acq.reqs, status |-> acq.status, fault |-> acq.fault,
        provider |-> IF Truthy(acq.token) THEN acq.token ELSE None,
        ret |-> IF Truthy(acq.token) THEN RetCtx ELSE None,
        raised |-> FALSE]

\* create_client_context: acquire when no token is cached, then wrap the
\* token in an authentication provider.  provider is the token handed to
\* SharePointAuthenticationProvider (None: no context was built).
CreateClientContext(token, resp) ==
    LET acq == IF ~Truthy(token) THEN LegacyGetAccessToken(token, resp)
               ELSE [token |-> token, ret |-> token, reqs |-> <<>>,
                     status |-> 0, fault |-> "none", raised |-> FALSE]
    IN [token |-> acq.token,
        acquires |-> IF ~Truthy(token) THEN 1 ELSE 0,
        reqs |-> acq.reqs, status |-> acq.status, fault |-> acq.fault,
        provider |-> IF Truthy(acq.token) THEN acq.token ELSE None,
        ret |-> IF Truthy(acq.token) THEN RetCtx ELSE None,
        raised |-> FALSE]

(***************************************************************************)
(* Legacy strategy: SharePointRestClient                                   *)
(***************************************************************************)
RestJsonOps == {"get_web_info", "get_lists", "get_list_items",
                "get_files_in_library"}
RestOps == RestJsonOps \cup {"download_file"}

RestGetHeaders_NoAuthorization(token) ==
    {<<"Accept", "application/json;odata=verbose">>,
     <<"Content-Type", "application/json;odata=verbose">>}

RestGetHeaders(token) ==
    {<<"Authorization", "Bearer " \o PyStr(token)>>,
     <<"Accept", "application/json;odata=verbose">>,
     <<"Content-Type", "application/json;odata=verbose">>}

\* The value a read returns when the status is not 200.
RestEmpty(op) == IF op = "download_file" THEN None ELSE EmptyDict

RestRead_RaisesOnStatus(op, token, resp) ==
    LET get == <<Request("GET", RestGetHeaders(token))>>
    IN IF resp.net = "ok" /\ resp.status = HTTP_OK
          /\ (resp.json \/ op = "download_file")
       THEN [reqs |-> get, status |-> resp.status, fault |-> "none",
             ret |-> IF op = "download_file" THEN RetBytes ELSE RetJson,
             raised |-> FALSE]
       ELSE [reqs |-> get, status |-> IF resp.net = "ok" THEN resp.status ELSE 0,
             fault |-> IF resp.net = "fault" THEN "transport"
                       ELSE IF resp.status = HTTP_OK THEN "body" ELSE "status",
             ret |-> None, raised |-> TRUE]

\* get_web_info, get_lists, get_list_items, get_files_in_library,
\* download_file: one GET, no try/except.
RestRead(op, token, resp) ==
    LET get == <<Request("GET", RestGetHeaders(token))>>
    IN IF resp.net = "fault"
       THEN \* requests.get raises and nothing catches it
            [reqs |-> get, status |-> 0, fault |-> "transport",
             ret |-> None, raised |-> TRUE]
       ELSE IF resp.status = HTTP_OK
       THEN IF op = "download_file"
            THEN [reqs |-> get, status |-> resp.status, fault |-> "none",
                  ret |-> RetBytes, raised |-> FALSE]
            ELSE IF resp.json
            THEN [reqs |-> get, status |-> resp.status, fault |-> "none",
                  ret |-> RetJson, raised |-> FALSE]
            ELSE \* response.json() raises and nothing catches it
                 [reqs |-> get, status |-> resp.status, fault |-> "body",
                  ret |-> None, raised |-> TRUE]
       ELSE [reqs |-> get, status |-> resp.status, fault |-> "status",
             ret |-> RestEmpty(op), raised |-> FALSE]

(***************************************************************************)
(* Modern strategy: SharePointGraphClient                                  *)
(***************************************************************************)
GraphJsonOps == {"get_sharepoint_sites", "get_site_by_url", "get_site_drives",
                 "get_drive_items", "get_excel_worksheets", "get_excel_data"}
GraphOps == GraphJsonOps \cup {"download_excel_file"}

\* `not result` of an MSAL answer
MsalFalsy(r) == r.kind \in {"none", "empty"}

\* One entry of a call's log of interactions with MSAL and the network.
Asked(fn, r) == [fn |-> fn, kind |-> r.kind, access_token |-> r.access_token]
Sent(method) == [fn |-> method, kind |-> "request", access_token |-> None]

\* The fault kind behind a failed MSAL answer.
MsalFault(r) == IF r.kind = "raise" THEN "transport"
                ELSE IF r.kind = "error" THEN "status"
                ELSE IF r.kind = "token" THEN "none" ELSE "body"

GraphGetAccessToken_AlwaysGrant(token, silent, grant) ==
    LET calls == <<Asked("silent", silent), Asked("grant", grant)>>
    IN IF grant.kind = "token"
       THEN [token |-> grant.access_token, ret |-> grant.access_token,
             calls |-> calls, fault |-> "none", raised |-> FALSE]
       ELSE [token |-> token, ret |-> None, calls |-> calls,
             fault |-> MsalFault(grant), raised |-> FALSE]

GraphGetAccessToken_ClearsOnFailure(token, silent, grant) ==
    LET asked  == silent.kind # "raise" /\ MsalFalsy(silent)
        result == IF asked THEN grant ELSE silent
        calls  == IF asked THEN <<Asked("silent", silent), Asked("grant", grant)>>
                  ELSE <<Asked("silent", silent)>>
    IN [token |-> result.access_token, ret |-> result.access_token,
        calls |-> calls, fault |-> MsalFault(result), raised |-> FALSE]

\* get_access_token: acquire_token_silent, then acquire_token_for_client when
\* the silent answer is falsy; the token is cached when the final answer has
\* an 'access_token' key.  Everything runs inside try/except.
GraphGetAccessToken(token, silent, grant) ==
    IF silent.kind = "raise"
    THEN [token |-> token, ret |-> None, calls |-> <<Asked("silent", silent)>>,
          fault |-> "transport", raised |-> FALSE]
    ELSE LET result == IF MsalFalsy(silent) THEN grant ELSE silent
             calls  == IF MsalFalsy(silent)
                       THEN <<Asked("silent", silent), Asked("grant", grant)>>
                       ELSE <<Asked("silent", silent)>>
         IN  \* a raising grant, and "access_token" in None (TypeError), are
             \* caught by the except clause
             IF result.kind = "token"
             THEN [token |-> result.access_token, ret |-> result.access_token,
                   calls |-> calls, fault |-> "none", raised |-> FALSE]
             ELSE [token |-> token, ret |-> None, calls |-> calls,
                   fault |-> MsalFault(result), raised |-> FALSE]

Cached(token) == [token |-> token, ret |-> token, calls |-> <<>>,
                  fault |-> "none", raised |-> FALSE]

GraphGetHeaders_NoAcquire(token, silent, grant) ==
    [token |-> token, acquires |-> 0, calls |-> <<>>,
     headers |-> {<<"Authorization", "Bearer " \o PyStr(token)>>,
                  <<"Content-Type", "application/json">>}]

GraphGetHeaders_Retry(token, silent, grant) ==
    LET first  == IF ~Truthy(token) THEN GraphGetAccessToken(token, silent, grant)
                  ELSE Cached(token)
        second == IF ~Truthy(first.token)
                  THEN GraphGetAccessToken(first.token, silent, grant)
                  ELSE Cached(first.token)
    IN [token |-> second.token,
        acquires |-> (IF ~Truthy(token) THEN 1 ELSE 0)
                     + (IF ~Truthy(first.token) THEN 1 ELSE 0),
        calls |-> first.calls \o second.calls,
        headers |-> {<<"Authorization", "Bearer " \o PyStr(second.token)>>,
                     <<"Content-Type", "application/json">>}]

GraphGetHeaders_AlwaysAcquire(token, silent, grant) ==
    LET acq == GraphGetAccessToken(token, silent, grant)
    IN [token |-> acq.token, acquires |-> 1, calls |-> acq.calls,
        headers |-> {<<"Authorization", "Bearer " \o PyStr(acq.token)>>,
                     <<"Content-Type", "application/json">>}]

\* get_headers: acquire when no token is cached, then build the headers from
\* whatever is cached afterwards.
GraphGetHeaders(token, silent, grant) ==
    LET acq == IF ~Truthy(token) THEN GraphGetAccessToken(token, silent, grant)
               ELSE Cached(token)
    IN [token |-> acq.token,
        acquires |-> IF ~Truthy(token) THEN 1 ELSE 0,
        calls |-> acq.calls,
        headers |-> {<<"Authorization", "Bearer " \o PyStr(acq.token)>>,
                     <<"Content-Type", "application/json">>}]

\* self.graph_endpoint
GraphEndpoint == <<"https", ":", "/", "/", "graph.microsoft.com", "/", "v1.0">>

\* The lexemes a scheme is made of (urllib.parse.scheme_chars).
SchemeWords == {"https", "http"}

\* Where the first of the given lexemes occurs in s, Len(s) + 1 if none does.
FirstOf(s, delims) ==
    IF \E i \in 1..Len(s) : s[i] \in delims
    THEN CHOOSE i \in 1..Len(s) :
            s[i] \in delims /\ \A j \in 1..(i - 1) : s[j] \notin delims
    ELSE Len(s) + 1

\* Where the last of the given lexemes occurs in s, 0 if none does.
LastOf(s, delims) ==
    IF \E i \in 1..Len(s) : s[i] \in delims
    THEN CHOOSE i \in 1..Len(s) :
            s[i] \in delims /\ \A j \in (i + 1)..Len(s) : s[j] \notin delims
    ELSE 0

\* s[i:]
From(s, i) == SubSeq(s, i, Len(s))

\* urllib.parse.urlparse: the scheme up to the first ':', the netloc
\* between '//' and the first of '/', '?', '#', then the fragment after
\* '#', the query after '?', and the params after the first ';' of the
\* last path segment.
UrlParse(url) ==
    LET colon    == Find(url, <<":">>)
        schemed  == colon = 2 /\ url[1] \in SchemeWords
        rest1    == IF schemed THEN From(url, colon + 1) ELSE url
        located  == StartsAt(rest1, <<"/", "/">>, 1)
        body     == From(rest1, 3)
        delim    == FirstOf(body, {"/", "?", "#"})
        rest2    == IF located THEN From(body, delim) ELSE rest1
        hash     == FirstOf(rest2, {"#"})
        rest3    == SubSeq(rest2, 1, hash - 1)
        mark     == FirstOf(rest3, {"?"})
        rest4    == SubSeq(rest3, 1, mark - 1)
        segment  == LastOf(rest4, {"/"})
        semi     == segment + FirstOf(From(rest4, segment + 1), {";"})
    IN [scheme   |-> IF schemed THEN <<url[1]>> ELSE <<>>,
        netloc   |-> IF located THEN SubSeq(body, 1, delim - 1) ELSE <<>>,
        path     |-> SubSeq(rest4, 1, semi - 1),
        params   |-> From(rest4, semi + 1),
        query    |-> From(rest3, mark + 1),
        fragment |-> From(rest2, hash + 1)]

SiteRequestUrl_NoColon(site_url) ==
    LET parsed == UrlParse(site_url)
    IN GraphEndpoint \o <<"/", "sites", "/">> \o parsed.netloc \o parsed.path

\* url = f"{self.graph_endpoint}/sites/{hostname}:{site_path}"
SiteRequestUrl(site_url) ==
    LET parsed    == UrlParse(site_url)
        hostname  == parsed.netloc
        site_path == parsed.path
    IN GraphEndpoint \o <<"/", "sites", "/">> \o hostname \o <<":">> \o site_path

GraphEmpty(op) == IF op = "download_excel_file" THEN PyFalse ELSE EmptyDict

\* get_sharepoint_sites, get_site_by_url, get_site_drives, get_drive_items,
\* get_excel_worksheets, get_excel_data: get_headers(), one GET, no
\* try/except.  download_excel_file also writes the body to local_path.
\* created: the local file exists afterwards because of this call.
GraphRead(op, token, silent, grant, resp, fs) ==
    LET h   == GraphGetHeaders(token, silent, grant)
        get == <<Request("GET", h.headers)>>
        base == [token |-> h.token, acquires |-> h.acquires,
                 calls |-> h.calls \o <<Sent("GET")>>,
                 reqs |-> get, created |-> FALSE]
    IN IF resp.net = "fault"
       THEN base @@ [status |-> 0, fault |-> "transport", ret |-> None,
                     raised |-> TRUE]
       ELSE IF resp.status = HTTP_OK
       THEN IF op = "download_excel_file"
            THEN IF fs = "open_fail"
                 THEN \* open(local_path, 'wb') raises
                      base @@ [status |-> resp.status, fault |-> "fs",
                               ret |-> None, raised |-> TRUE]
                 ELSE IF fs = "write_fail"
                 THEN \* f.write raises after the file was created
                      [base EXCEPT !.created = TRUE]
                         @@ [status |-> resp.status, fault |-> "fs",
                             ret |-> None, raised |-> TRUE]
                 ELSE [base EXCEPT !.created = TRUE]
                         @@ [status |-> resp.status, fault |-> "none",
                             ret |-> PyTrue, raised |-> FALSE]
            ELSE IF resp.json
            THEN base @@ [status |-> resp.status, fault |-> "none",
                          ret |-> RetJson, raised |-> FALSE]
            ELSE base @@ [status |-> resp.status, fault |-> "body",
                          ret |-> None, raised |-> TRUE]
       ELSE base @@ [status |-> resp.status, fault |-> "status",
                     ret |-> GraphEmpty(op), raised |-> FALSE]

\* get_site_by_url: the read with the URL its GET goes to.
GetSiteByUrl(token, silent, grant, resp, site_url) ==
    LET r == GraphRead("get_site_by_url", token, silent, grant, resp, "ok")
    IN [r EXCEPT !.reqs = <<r.reqs[1] @@ [url |-> SiteRequestUrl(site_url)]>>]

(***************************************************************************)
(* Resource-context strategy: SharePointOffice365Client, SharePointUserAuth *)
(***************************************************************************)
\* How one execute_query() round trip ends: the library raises on a
\* transport fault, on a non-200 answer and on a body it cannot parse.
\* named = FALSE is a 200 answer whose file records carry no Name property
\* (File.name is then None).
QueryOutcomes ==
    {[fault |-> "none", status |-> HTTP_OK, named |-> n] : n \in BOOLEAN}
    \cup {[fault |-> "transport", status |-> 0, named |-> FALSE],
          [fault |-> "body", status |-> HTTP_OK, named |-> FALSE]}
    \cup {[fault |-> "status", status |-> s, named |-> FALSE] : s \in ErrStatuses}

\* The steps of authenticate() in order; "none" as the failing step means
\* that none of them raised.
O365AuthSteps == <<"credential", "context", "load", "execute", "report">>
UserAuthSteps == <<"auth_context", "acquire_token", "context", "load",
                   "execute", "report">>

IndexOf(seq, x) == CHOOSE i \in 1..Len(seq) : seq[i] = x

\* The steps that ran to completion when `step` is the one that raised.
Completed(steps, step) ==
    IF step = "none" THEN steps ELSE SubSeq(steps, 1, IndexOf(steps, step) - 1)

Did(done, step) == \E i \in 1..Len(done) : done[i] = step

AuthOutcomes(steps) ==
    {[step |-> "none", q |-> [fault |-> "none", status |-> HTTP_OK, named |-> TRUE]]}
    \cup {[step |-> steps[i], q |-> [fault |-> "local", status |-> 0, named |-> FALSE]] :
             i \in {j \in 1..Len(steps) : steps[j] # "execute"}}
    \cup {[step |-> "execute", q |-> q] : q \in {x \in QueryOutcomes : x.fault # "none"}}

O365Authenticate_TrueOnFailure(ctx, out) ==
    LET done == Completed(O365AuthSteps, out.step)
    IN [ctx |-> IF Did(done, "context") THEN RetCtx ELSE ctx,
        calls |-> done,
        reqs |-> IF Did(done, "load") THEN <<Request("QUERY", {})>> ELSE <<>>,
        status |-> out.q.status, fault |-> out.q.fault,
        ret |-> PyTrue, raised |-> FALSE]

\* SharePointOffice365Client.authenticate: self.ctx is assigned as soon as the
\* context is built, before the load + execute_query round trip.
O365Authenticate(ctx, out) ==
    LET done == Completed(O365AuthSteps, out.step)
    IN [ctx |-> IF Did(done, "context") THEN RetCtx ELSE ctx,
        calls |-> done,
        reqs |-> IF Did(done, "load") THEN <<Request("QUERY", {})>> ELSE <<>>,
        status |-> out.q.status, fault |-> out.q.fault,
        ret |-> IF out.step = "none" THEN PyTrue ELSE PyFalse,
        raised |-> FALSE]

\* SharePointUserAuth.authenticate
UserAuthenticate(ctx, out) ==
    LET done == Completed(UserAuthSteps, out.step)
    IN [ctx |-> IF Did(done, "context") THEN RetCtx ELSE ctx,
        calls |-> done,
        reqs |-> IF Did(done, "load") THEN <<Request("QUERY", {})>> ELSE <<>>,
        status |-> out.q.status, fault |-> out.q.fault,
        ret |-> IF out.step = "none" THEN PyTrue ELSE PyFalse,
        raised |-> FALSE]

O365ListOps == {"get_document_libraries", "get_files_in_library",
                "get_list_items"}

O365Read_NoTry(op, ctx, q) ==
    IF ~Truthy(ctx)
    THEN [reqs |-> <<>>, status |-> 0, fault |-> "none", ret |-> EmptyList,
          nameless |-> FALSE, raised |-> FALSE]
    ELSE [reqs |-> <<Request("QUERY", {})>>, status |-> q.status,
          fault |-> q.fault,
          ret |-> IF q.fault = "none" THEN RetList ELSE None,
          nameless |-> (q.fault = "none" /\ op = "get_files_in_library"
                        /\ ~q.named),
          raised |-> q.fault # "none"]

\* get_document_libraries, get_files_in_library, get_list_items: the
\* not-authenticated guard, then load + execute_query inside try/except.
\* nameless: the returned list holds a record whose name is None.
O365Read(op, ctx, q) ==
    IF ~Truthy(ctx)
    THEN [reqs |-> <<>>, status |-> 0, fault |-> "none", ret |-> EmptyList,
          nameless |-> FALSE, raised |-> FALSE]
    ELSE IF q.fault # "none"
    THEN [reqs |-> <<Request("QUERY", {})>>, status |-> q.status,
          fault |-> q.fault, ret |-> EmptyList, nameless |-> FALSE,
          raised |-> FALSE]
    ELSE [reqs |-> <<Request("QUERY", {})>>, status |-> q.status,
          fault |-> "none", ret |-> RetList,
          nameless |-> (op = "get_files_in_library" /\ ~q.named),
          raised |-> FALSE]

\* get_excel_files: get_files_in_library, then f['name'].lower() over the
\* result, with no try/except of its own.
O365GetExcelFiles(ctx, q) ==
    LET all == O365Read("get_files_in_library", ctx, q)
    IN IF all.nameless
       THEN \* None.lower() raises AttributeError and nothing catches it
            [all EXCEPT !.fault = "shape", !.ret = None, !.raised = TRUE]
       ELSE IF all.ret = EmptyList THEN all
       ELSE [all EXCEPT !.ret = RetExcel]

\* The lists of the web as execute_query() delivers them: each with its
\* properties; base_template 101 is a document library, 100 a generic
\* list, 119 a wiki page library.
DocumentLibraryTemplate == 101
ListTemplates == {100, DocumentLibraryTemplate, 119}
ListAt(i, template) ==
    [id |-> i, title |-> "list" \o Digits[i], item_count |-> i,
     default_view_url |-> "/Lists/" \o Digits[i], base_template |-> template]
ListCollections ==
    UNION {{[i \in 1..n |-> ListAt(i, ts[i])] : ts \in [1..n -> ListTemplates]} :
              n \in 0..MaxLists}

LibraryRecord(lst) ==
    [title |-> lst.title, id |-> lst.id, item_count |-> lst.item_count,
     server_relative_url |-> lst.default_view_url]

RECURSIVE DocLibraries_NoTemplateTest(_, _, _)
DocLibraries_NoTemplateTest(lists, i, doc_libraries) ==
    IF i > Len(lists) THEN doc_libraries
    ELSE DocLibraries_NoTemplateTest(lists, i + 1,
                                     Append(doc_libraries, LibraryRecord(lists[i])))

\* for lst in lists: if lst.base_template == 101: doc_libraries.append({...})
RECURSIVE DocLibraries(_, _, _)
DocLibraries(lists, i, doc_libraries) ==
    IF i > Len(lists) THEN doc_libraries
    ELSE DocLibraries(lists, i + 1,
                      IF lists[i].base_template = DocumentLibraryTemplate
                      THEN Append(doc_libraries, LibraryRecord(lists[i]))
                      ELSE doc_libraries)

\* get_document_libraries with the list it returns: the guard and the
\* try/except of O365Read, the loop over the loaded collection.
GetDocumentLibraries(ctx, q, lists) ==
    LET r == O365Read("get_document_libraries", ctx, q)
    IN [reqs |-> r.reqs, status |-> r.status, fault |-> r.fault,
        raised |-> r.raised,
        ret |-> IF r.ret = RetList THEN DocLibraries(lists, 1, <<>>)
                ELSE <<>>]

O365FsOutcomes == FsOutcomes \cup {"mkdir_fail"}

\* download_file: the guard, then makedirs, open(local_path, 'wb'),
\* file.download and execute_query inside try/except.
O365DownloadFile(ctx, q, fs) ==
    IF ~Truthy(ctx)
    THEN [reqs |-> <<>>, status |-> 0, fault |-> "none", ret |-> PyFalse,
          created |-> FALSE, raised |-> FALSE]
    ELSE IF fs \in {"mkdir_fail", "open_fail"}
    THEN [reqs |-> <<>>, status |-> 0, fault |-> "fs", ret |-> PyFalse,
          created |-> FALSE, raised |-> FALSE]
    ELSE IF q.fault # "none"
    THEN [reqs |-> <<Request("QUERY", {})>>, status |-> q.status,
          fault |-> q.fault, ret |-> PyFalse, created |-> TRUE,
          raised |-> FALSE]
    ELSE IF fs = "write_fail"
    THEN [reqs |-> <<Request("QUERY", {})>>, status |-> q.status,
          fault |-> "fs", ret |-> PyFalse, created |-> TRUE, raised |-> FALSE]
    ELSE [reqs |-> <<Request("QUERY", {})>>, status |-> q.status,
          fault |-> "none", ret |-> PyTrue, created |-> TRUE, raised |-> FALSE]

TmpPath == "/tmp/book.xlsx"

\* One step of download_and_read_excel with what it returned; Raised stands
\* for a step that raised instead of returning.
Raised == "<raise>"
Step(fn, ret) == [fn |-> fn, ret |-> ret]

O365DownloadAndReadExcel_ParsesAnyway(ctx, q, fs, parse, rm, existed) ==
    IF ~Truthy(ctx)
    THEN [reqs |-> <<>>, status |-> 0, fault |-> "none", ret |-> None,
          calls |-> <<>>, present |-> existed, raised |-> FALSE]
    ELSE LET dl == O365DownloadFile(ctx, q, fs)
         IN [reqs |-> dl.reqs, status |-> dl.status, raised |-> FALSE,
             fault |-> dl.fault, ret |-> RetTable,
             calls |-> <<Step("download_file", dl.ret),
                         Step("read_excel", RetTable), Step("remove", None)>>,
             present |-> FALSE]

O365DownloadAndReadExcel_RemovesAlways(ctx, q, fs, parse, rm, existed) ==
    IF ~Truthy(ctx)
    THEN [reqs |-> <<>>, status |-> 0, fault |-> "none", ret |-> None,
          calls |-> <<>>, present |-> existed, raised |-> FALSE]
    ELSE LET dl == O365DownloadFile(ctx, q, fs)
             base == [reqs |-> dl.reqs, status |-> dl.status, raised |-> FALSE]
         IN IF dl.ret = PyFalse
            THEN base @@ [fault |-> dl.fault, ret |-> None,
                          calls |-> <<Step("download_file", PyFalse)>>,
                          present |-> (existed \/ dl.created)]
            ELSE IF parse = "fail"
            THEN base @@ [fault |-> "body", ret |-> None,
                          calls |-> <<Step("download_file", PyTrue),
                                      Step("read_excel", Raised),
                                      Step("remove", None)>>,
                          present |-> FALSE]
            ELSE base @@ [fault |-> "none", ret |-> RetTable,
                          calls |-> <<Step("download_file", PyTrue),
                                      Step("read_excel", RetTable),
                                      Step("remove", None)>>,
                          present |-> FALSE]

\* download_and_read_excel: the guard, then download_file to the temporary
\* path, pd.read_excel, os.remove, all inside try/except.  calls lists the
\* steps that were invoked, each with what it returned; present says whether
\* the temporary file exists afterwards, given whether it existed before.
O365DownloadAndReadExcel(ctx, q, fs, parse, rm, existed) ==
    IF ~Truthy(ctx)
    THEN [reqs |-> <<>>, status |-> 0, fault |-> "none", ret |-> None,
          calls |-> <<>>, present |-> existed, raised |-> FALSE]
    ELSE LET dl == O365DownloadFile(ctx, q, fs)
             base == [reqs |-> dl.reqs, status |-> dl.status, raised |-> FALSE]
         IN IF dl.ret = PyFalse
            THEN base @@ [fault |-> dl.fault, ret |-> None,
                          calls |-> <<Step("download_file", PyFalse)>>,
                          present |-> (existed \/ dl.created)]
            ELSE IF parse = "fail"
            THEN base @@ [fault |-> "body", ret |-> None,
                          calls |-> <<Step("download_file", PyTrue),
                                      Step("read_excel", Raised)>>,
                          present |-> TRUE]
            ELSE IF rm = "fail"
            THEN base @@ [fault |-> "fs", ret |-> None,
                          calls |-> <<Step("download_file", PyTrue),
                                      Step("read_excel", RetTable),
                                      Step("remove", Raised)>>,
                          present |-> TRUE]
            ELSE base @@ [fault |-> "none", ret |-> RetTable,
                          calls |-> <<Step("download_file", PyTrue),
                                      Step("read_excel", RetTable),
                                      Step("remove", None)>>,
                          present |-> FALSE]

(***************************************************************************)
(* History kept beside the program state                                   *)
(***************************************************************************)
\* Session c made `attempts` acquisition attempts in this call and holds
\* `after` as its token afterwards.
FailedAfter(c, attempts, after) ==
    IF Truthy(after) THEN acqFailed \ {c}
    ELSE IF attempts > 0 THEN acqFailed \cup {c}
    ELSE acqFailed

AuthedAfter(c, succeeded) == IF succeeded THEN authed \cup {c} ELSE authed

(***************************************************************************)
(* Initial state.  The three source files are three separate programs (none *)
(* imports another): a process runs one of them, with that script's        *)
(* session objects freshly constructed and no REST client constructed yet. *)
(***************************************************************************)
Scripts == {"app_only", "msal", "office365"}

\* The session objects of every script as their constructors leave them.
Fresh ==
    /\ la_token = None
    /\ rc_live = FALSE
    /\ rc_token = None
    /\ g_token = None
    /\ o_ctx = None
    /\ u_ctx = None
    /\ files = {}
    /\ acqFailed = {}
    /\ authed = {}
    /\ prevAcq = NoAcq
    /\ last = Call("none", "none", "init", None, 0, <<>>, <<>>, 0, "none",
                   None, FALSE)

Init ==
    /\ script \in Scripts
    /\ Fresh
    /\ io = NoIO

(***************************************************************************)
(* Actions: one per method call                                            *)
(***************************************************************************)
\* app_auth.get_access_token()
LegacyAcquire ==
    /\ script = "app_only"
    /\ \E resp \in TokenResponses :
        \E r \in {LegacyGetAccessToken(la_token, resp)} :
           /\ la_token' = r.token
           /\ acqFailed' = FailedAfter("legacy", 1, r.token)
           /\ authed' = AuthedAfter("legacy", r.ret # None)
           /\ prevAcq' = IF r.ret # None
                         THEN [comp |-> "legacy", token |-> r.ret] ELSE NoAcq
           /\ last' = [Call("legacy", "get_access_token", "acquire", la_token,
                            1, <<>>, r.reqs, r.status, r.fault, r.ret,
                            r.raised)
                         EXCEPT !.offered = resp.access_token]
           /\ UNCHANGED <<io, script, rc_live, rc_token, g_token, o_ctx, u_ctx, files>>

\* app_auth.create_client_context()
LegacyCreateContext ==
    /\ script = "app_only"
    /\ \E resp \in TokenResponses :
        \E r \in {CreateClientContext(la_token, resp)} :
           /\ la_token' = r.token
           /\ acqFailed' = FailedAfter("legacy", r.acquires, r.token)
           /\ authed' = AuthedAfter("legacy",
                                    r.acquires > 0 /\ Truthy(r.token))
           /\ prevAcq' = NoAcq
           /\ last' = Call("legacy", "create_client_context", "context",
                           la_token, r.acquires, <<r.provider>>, r.reqs,
                           r.status, r.fault, r.ret, r.raised)
           /\ UNCHANGED <<io, script, rc_live, rc_token, g_token, o_ctx, u_ctx, files>>

\* SharePointRestClient(site_url, access_token)
RestNew ==
    /\ script = "app_only"
    /\ \E tok \in TokenOrNone :
        /\ rc_live' = TRUE
        /\ rc_token' = tok
        /\ acqFailed' = acqFailed \ {"rest"}
        /\ prevAcq' = IF prevAcq.comp = "legacy" /\ prevAcq.token = tok
                      THEN [comp |-> "rest", token |-> tok] ELSE NoAcq
        /\ last' = Call("rest", "__init__", "ctor", tok, 0, <<>>, <<>>, 0,
                        "none", None, FALSE)
        /\ UNCHANGED <<io, script, la_token, g_token, o_ctx, u_ctx, files, authed>>

\* rest_client.<read>()
RestCall ==
    /\ script = "app_only"
    /\ rc_live
    /\ \E op \in RestOps, resp \in ReadResponses :
        \E r \in {RestRead(op, rc_token, resp)} :
           /\ last' = Call("rest", op, "read", rc_token, 0, <<>>, r.reqs,
                           r.status, r.fault, r.ret, r.raised)
           /\ prevAcq' = NoAcq
           /\ UNCHANGED <<io, script, la_token, rc_live, rc_token, g_token, o_ctx, u_ctx,
                          files, acqFailed, authed>>

\* The inputs a call does not read are not enumerated: MSAL is consulted
\* only when no token is cached, the file system only by the download.
NotAsked == [kind |-> "none", access_token |-> None]
MsalInputs(token) == IF Truthy(token) THEN {NotAsked} ELSE MsalResults
GrantInputs(token, silent) ==
    IF Truthy(token) \/ ~MsalFalsy(silent) THEN {NotAsked}
    ELSE {r \in MsalResults : r.kind # "empty"}
FsInputs(op) == IF op = "download_excel_file" THEN FsOutcomes ELSE {"ok"}
GraphLocalPath == "./book.xlsx"

\* client.get_access_token()
GraphAcquire ==
    /\ script = "msal"
    /\ \E silent \in MsalResults : \E grant \in GrantInputs(None, silent) :
        \E r \in {GraphGetAccessToken(g_token, silent, grant)} :
           /\ g_token' = r.token
           /\ acqFailed' = FailedAfter("graph", 1, r.token)
           /\ authed' = AuthedAfter("graph", r.ret # None)
           /\ prevAcq' = IF r.ret # None
                         THEN [comp |-> "graph", token |-> r.ret] ELSE NoAcq
           /\ last' = Call("graph", "get_access_token", "acquire", g_token, 1,
                           r.calls, <<>>, 0, r.fault, r.ret, r.raised)
           /\ UNCHANGED <<io, script, la_token, rc_live, rc_token, o_ctx, u_ctx, files>>

\* client.<read>(); download_excel_file writes to local_path
GraphCall ==
    /\ script = "msal"
    /\ \E op \in GraphOps, silent \in MsalInputs(g_token) :
       \E grant \in GrantInputs(g_token, silent), resp \in ReadResponses,
          fs \in FsInputs(op) :
        \E r \in {GraphRead(op, g_token, silent, grant, resp, fs)} :
           /\ g_token' = r.token
           /\ files' = IF r.created THEN files \cup {GraphLocalPath} ELSE files
           /\ acqFailed' = FailedAfter("graph", r.acquires, r.token)
           /\ authed' = AuthedAfter("graph", r.acquires > 0 /\ Truthy(r.token))
           /\ prevAcq' = NoAcq
           /\ last' = Call("graph", op, "read", g_token, r.acquires, r.calls,
                           r.reqs, r.status, r.fault, r.ret, r.raised)
           /\ UNCHANGED <<io, script, la_token, rc_live, rc_token, o_ctx, u_ctx>>

\* client.authenticate()
O365Auth ==
    /\ script = "office365"
    /\ \E out \in AuthOutcomes(O365AuthSteps) :
        \E r \in {O365Authenticate(o_ctx, out)} :
           /\ o_ctx' = r.ctx
           /\ acqFailed' = FailedAfter("o365", 1, r.ctx)
           /\ authed' = AuthedAfter("o365", r.ret = PyTrue)
           /\ prevAcq' = IF r.ret = PyTrue
                         THEN [comp |-> "o365", token |-> r.ret] ELSE NoAcq
           /\ last' = Call("o365", "authenticate", "acquire", o_ctx, 1,
                           r.calls, r.reqs, r.status, r.fault, r.ret, r.raised)
           /\ UNCHANGED <<io, script, la_token, rc_live, rc_token, g_token, u_ctx, files>>

\* user_client.authenticate()
UserAuth ==
    /\ script = "office365"
    /\ \E out \in AuthOutcomes(UserAuthSteps) :
        \E r \in {UserAuthenticate(u_ctx, out)} :
           /\ u_ctx' = r.ctx
           /\ acqFailed' = FailedAfter("user", 1, r.ctx)
           /\ authed' = AuthedAfter("user", r.ret = PyTrue)
           /\ prevAcq' = IF r.ret = PyTrue
                         THEN [comp |-> "user", token |-> r.ret] ELSE NoAcq
           /\ last' = Call("user", "authenticate", "acquire", u_ctx, 1,
                           r.calls, r.reqs, r.status, r.fault, r.ret, r.raised)
           /\ UNCHANGED <<io, script, la_token, rc_live, rc_token, g_token, o_ctx, files>>

\* client.get_document_libraries / get_files_in_library / get_list_items
O365Call ==
    /\ script = "office365"
    /\ \E op \in O365ListOps, q \in QueryOutcomes :
        \E r \in {O365Read(op, o_ctx, q)} :
           /\ last' = Call("o365", op, "read", o_ctx, 0, <<>>, r.reqs,
                           r.status, r.fault, r.ret, r.raised)
           /\ prevAcq' = NoAcq
           /\ UNCHANGED <<io, script, la_token, rc_live, rc_token, g_token, o_ctx, u_ctx,
                          files, acqFailed, authed>>

\* client.get_excel_files()
O365ExcelFiles ==
    /\ script = "office365"
    /\ \E q \in QueryOutcomes :
        \E r \in {O365GetExcelFiles(o_ctx, q)} :
           /\ last' = Call("o365", "get_excel_files", "read", o_ctx, 0, <<>>,
                           r.reqs, r.status, r.fault, r.ret, r.raised)
           /\ prevAcq' = NoAcq
           /\ UNCHANGED <<io, script, la_token, rc_live, rc_token, g_token, o_ctx, u_ctx,
                          files, acqFailed, authed>>

\* No round trip is made without a context or after makedirs/open failed.
NoQuery == [fault |-> "none", status |-> 0, named |-> FALSE]
QueryInputs(ctx, fs) ==
    IF ~Truthy(ctx) \/ fs \in {"mkdir_fail", "open_fail"} THEN {NoQuery}
    ELSE QueryOutcomes

\* client.download_file(url, local_path)
O365Download ==
    /\ script = "office365"
    /\ \E fs \in O365FsOutcomes, path \in LocalPaths :
       \E q \in QueryInputs(o_ctx, fs) :
        \E r \in {O365DownloadFile(o_ctx, q, fs)} :
           /\ files' = IF r.created THEN files \cup {path} ELSE files
           /\ last' = Call("o365", "download_file", "read", o_ctx, 0, <<>>,
                           r.reqs, r.status, r.fault, r.ret, r.raised)
           /\ prevAcq' = NoAcq
           /\ UNCHANGED <<io, script, la_token, rc_live, rc_token, g_token, o_ctx, u_ctx,
                          acqFailed, authed>>

\* The parser is consulted only after a download that succeeded, os.remove
\* only after a parse that succeeded.
ParseInputs(ctx, q, fs) ==
    IF O365DownloadFile(ctx, q, fs).ret = PyTrue THEN {"ok", "fail"}
    ELSE {"skipped"}
RemoveInputs(parse) == IF parse = "ok" THEN {"ok", "fail"} ELSE {"skipped"}

\* client.download_and_read_excel(url)
O365DownloadAndRead ==
    /\ script = "office365"
    /\ \E fs \in O365FsOutcomes : \E q \in QueryInputs(o_ctx, fs) :
       \E parse \in ParseInputs(o_ctx, q, fs) : \E rm \in RemoveInputs(parse) :
        \E r \in {O365DownloadAndReadExcel(o_ctx, q, fs, parse, rm,
                                          TmpPath \in files)} :
           /\ files' = IF r.present THEN files \cup {TmpPath}
                       ELSE files \ {TmpPath}
           /\ last' = Call("o365", "download_and_read_excel", "read", o_ctx,
                           0, r.calls, r.reqs, r.status, r.fault, r.ret,
                           r.raised)
           /\ prevAcq' = NoAcq
           /\ UNCHANGED <<io, script, la_token, rc_live, rc_token, g_token, o_ctx, u_ctx,
                          acqFailed, authed>>

Next ==
    \/ LegacyAcquire
    \/ LegacyCreateContext
    \/ RestNew
    \/ RestCall
    \/ GraphAcquire
    \/ GraphCall
    \/ O365Auth
    \/ UserAuth
    \/ O365Call
    \/ O365ExcelFiles
    \/ O365Download
    \/ O365DownloadAndRead

Spec == Init /\ [][Next]_vars

(***************************************************************************)
(* Construction of the legacy session, checked on its own: the site URL    *)
(* and the answer to the realm request are drawn, the constructor runs.    *)
(***************************************************************************)
\* Site URLs as scheme, host and path; a URL without scheme has no '//'.
SiteSchemes == {<<"https", ":", "/", "/">>, <<>>}
SiteHosts == {<<"contoso", ".", "sharepoint", ".", "com">>, <<"intranet">>}
SitePaths == {<<>>, <<"/", "sites", "/", "teamsite">>,
              <<"/", "/", "sites", "/", "a", ".", "b">>}
Sites == [scheme : SiteSchemes, host : SiteHosts, path : SitePaths]
SiteUrl(site) == site.scheme \o site.host \o site.path

InitRealm ==
    /\ script = "app_only"
    /\ Fresh
    /\ \E site \in Sites, resp \in RealmResponses :
          io = [op |-> "SharePointAppOnlyAuth", done |-> FALSE,
                site |-> site, response |-> resp]

\* SharePointAppOnlyAuth(site_url, client_id, client_secret)
LegacyNew ==
    /\ script = "app_only"
    /\ io.op = "SharePointAppOnlyAuth" /\ ~io.done
    /\ \E r \in {LegacyInit(SiteUrl(io.site), io.response)} :
          io' = [io EXCEPT !.done = TRUE] @@ [ret |-> r]
    /\ UNCHANGED <<script, la_token, rc_live, rc_token, g_token, o_ctx, u_ctx,
                   files, acqFailed, authed, prevAcq, last>>

NextRealm == LegacyNew

SpecRealm == InitRealm /\ [][NextRealm]_vars

(***************************************************************************)
(* get_document_libraries checked on its own: the context, the outcome of  *)
(* the round trip and the remote collection are drawn, the method runs.    *)
(***************************************************************************)
\* The collection is read only after a round trip that succeeded.
CollectionInputs(ctx, q) ==
    IF Truthy(ctx) /\ q.fault = "none" THEN ListCollections ELSE {<<>>}

InitLibraries ==
    /\ script = "office365"
    /\ Fresh
    /\ \E ctx \in {None, RetCtx} : \E q \in QueryInputs(ctx, "ok") :
       \E lists \in CollectionInputs(ctx, q) :
          io = [op |-> "get_document_libraries", done |-> FALSE,
                ctx |-> ctx, q |-> q, lists |-> lists]

\* client.get_document_libraries()
O365DocumentLibraries ==
    /\ script = "office365"
    /\ io.op = "get_document_libraries" /\ ~io.done
    /\ \E r \in {GetDocumentLibraries(io.ctx, io.q, io.lists)} :
          io' = [io EXCEPT !.done = TRUE] @@ [ret |-> r]
    /\ UNCHANGED <<script, la_token, rc_live, rc_token, g_token, o_ctx, u_ctx,
                   files, acqFailed, authed, prevAcq, last>>

NextLibraries == O365DocumentLibraries

SpecLibraries == InitLibraries /\ [][NextLibraries]_vars

(***************************************************************************)
(* get_site_by_url checked on its own: the cached token, the answers of    *)
(* MSAL and of the Graph endpoint and the site URL are drawn, the method   *)
(* runs.  A site URL is scheme://host/path, possibly followed by ;params,  *)
(* ?query or #fragment.                                                    *)
(***************************************************************************)
GraphSiteHosts == {<<"contoso", ".", "sharepoint", ".", "com">>,
                   <<"contoso", ".", "sharepoint", ".", "com", ":", "443">>}
GraphSitePaths ==
    {<<"/">> \o t : t \in Texts({"/", "sites", "teamsite"}, MaxPath - 1)}
UrlSuffixes == {<<>>, <<";", "p">>, <<"?", "q">>, <<"#", "f">>}
GraphSites == [host : GraphSiteHosts, path : GraphSitePaths,
               suffix : UrlSuffixes]
GraphSiteUrl(site) ==
    <<"https", ":", "/", "/">> \o site.host \o site.path \o site.suffix

InitSiteUrl ==
    /\ script = "msal"
    /\ Fresh
    /\ \E token \in TokenOrNone, site \in GraphSites, resp \in ReadResponses :
       \E silent \in MsalInputs(token) : \E grant \in GrantInputs(token, silent) :
          io = [op |-> "get_site_by_url", done |-> FALSE, token |-> token,
                silent |-> silent, grant |-> grant, resp |-> resp,
                site |-> site]

\* client.get_site_by_url(site_url)
GraphSiteByUrl ==
    /\ script = "msal"
    /\ io.op = "get_site_by_url" /\ ~io.done
    /\ \E r \in {GetSiteByUrl(io.token, io.silent, io.grant, io.resp,
                              GraphSiteUrl(io.site))} :
          /\ io' = [io EXCEPT !.done = TRUE] @@ [ret |-> r]
          /\ g_token' = r.token
    /\ UNCHANGED <<script, la_token, rc_live, rc_token, o_ctx, u_ctx,
                   files, acqFailed, authed, prevAcq, last>>

NextSiteUrl == GraphSiteByUrl

SpecSiteUrl == InitSiteUrl /\ [][NextSiteUrl]_vars

(***************************************************************************)
(* Vocabulary of the properties                                            *)
(***************************************************************************)
\* The token field (access_token or ctx) of the object a call was made on.
TokenOf(comp) ==
    CASE comp = "legacy" -> la_token
      [] comp = "rest"   -> rc_token
      [] comp = "graph"  -> g_token
      [] comp = "o365"   -> o_ctx
      [] comp = "user"   -> u_ctx
      [] OTHER           -> None

\* The requests of the latest call that read remote data.
ReadRequests == SelectSeq(last.reqs, LAMBDA q : q.method \in {"GET", "QUERY"})

\* The Authorization headers of a request.
Authorization(q) == {h \in q.headers : h[1] = "Authorization"}

\* The declared return type of each read operation, from its annotation.
ReturnType(comp, op) ==
    CASE comp = "rest" /\ op = "download_file"            -> "bytes"
      [] comp = "rest"                                     -> "dict"
      [] comp = "graph" /\ op = "download_excel_file"      -> "bool"
      [] comp = "graph"                                    -> "dict"
      [] comp = "o365" /\ op = "download_file"             -> "bool"
      [] comp = "o365" /\ op = "download_and_read_excel"   -> "optional"
      [] OTHER                                             -> "list"

\* The empty value of a return type.
EmptyOf(type) ==
    CASE type = "dict" -> EmptyDict
      [] type = "list" -> EmptyList
      [] type = "bool" -> PyFalse
      [] OTHER         -> None

FourFaultKinds == {"transport", "status", "body", "shape", "fs"}

(***************************************************************************)
(* C1                                                                      *)
(***************************************************************************)
\* C1 as stated: in every session component, a read operation invoked
\* while the token (access_token / ctx) is unset sends no read request
\* unless exactly one token acquisition was attempted within the operation.
C1_AsStated ==
    (last.kind = "read" /\ ~Truthy(last.entry) /\ Len(ReadRequests) > 0)
        => last.acquires = 1

\* C1 amended: with the token unset at entry, a Graph read makes exactly one
\* acquisition attempt (MSAL is asked before the GET goes out) and then
\* sends its one GET; a resource-context read sends nothing and attempts
\* nothing; a legacy REST read attempts no acquisition and still sends its
\* GET, carrying the unset token it was constructed with.
C1_Amended ==
    (last.kind = "read" /\ ~Truthy(last.entry)) =>
        CASE last.comp = "graph" ->
                 /\ last.acquires = 1
                 /\ Len(ReadRequests) = 1
                 /\ Len(last.calls) >= 2
                 /\ last.calls[1].fn = "silent"
                 /\ last.calls[Len(last.calls)].fn = "GET"
                 /\ \A i \in 1..(Len(last.calls) - 1) : last.calls[i].fn # "GET"
          [] last.comp = "o365" ->
                 last.acquires = 0 /\ Len(ReadRequests) = 0
          [] last.comp = "rest" ->
                 /\ last.acquires = 0
                 /\ Len(ReadRequests) = 1
                 /\ Authorization(ReadRequests[1])
                       = {<<"Authorization", "Bearer None">>}
          [] OTHER -> FALSE

\* A Graph read entered without a token that acquired one and sent its GET.
C1_Witness ==
    /\ last.comp = "graph" /\ last.kind = "read"
    /\ ~Truthy(last.entry) /\ last.acquires = 1
    /\ Truthy(g_token) /\ Len(ReadRequests) = 1

(***************************************************************************)
(* C2                                                                      *)
(***************************************************************************)
\* C2 as stated: once an acquisition attempt of a session has failed (token
\* still unset), later read operations of that session trigger no
\* acquisition attempt on their own.
C2_AsStated ==
    (last.kind = "read" /\ last.failedBefore) => last.acquires = 0

\* C2 amended: no call makes more than one acquisition attempt, and an
\* attempt asks each token source at most once (no retry inside a call);
\* but calls do re-attempt acquisition on their own: every Graph read and the
\* legacy create_client_context make one new attempt exactly when the token
\* is unset at entry, also after an earlier attempt failed.  Legacy REST
\* reads and resource-context reads never attempt acquisition.
C2_Amended ==
    /\ last.acquires <= 1
    /\ (last.comp = "graph" /\ last.kind \in {"read", "acquire"}) =>
          /\ Cardinality({i \in 1..Len(last.calls) : last.calls[i].fn = "silent"}) <= 1
          /\ Cardinality({i \in 1..Len(last.calls) : last.calls[i].fn = "grant"}) <= 1
    /\ (last.comp = "legacy") =>
          Len(SelectSeq(last.reqs, LAMBDA q : q.method = "POST")) = last.acquires
    /\ (last.comp = "graph" /\ last.kind = "read") =>
          last.acquires = IF Truthy(last.entry) THEN 0 ELSE 1
    /\ (last.comp = "legacy" /\ last.op = "create_client_context") =>
          last.acquires = IF Truthy(last.entry) THEN 0 ELSE 1
    /\ (last.kind = "read" /\ last.comp \in {"rest", "o365"}) =>
          last.acquires = 0

\* A Graph read after a failed acquisition that attempted acquisition again.
C2_Witness ==
    /\ last.comp = "graph" /\ last.kind = "read"
    /\ last.failedBefore /\ last.acquires = 1

(***************************************************************************)
(* C3                                                                      *)
(***************************************************************************)
\* C3: a read operation of any of the three strategies that receives a
\* non-200 response returns the empty value of its return type ({} for the
\* dict-returning reads, None for the legacy byte download, False for the
\* boolean downloads; [] for the list-returning resource-context reads)
\* and does not raise.
C3_Non200GivesEmpty ==
    (last.kind = "read" /\ last.status \notin {0, HTTP_OK}) =>
        /\ ~last.raised
        /\ last.ret = EmptyOf(ReturnType(last.comp, last.op))

\* A legacy byte download and a Graph boolean download are among the reads
\* answered with a non-200 status.
C3_Witness ==
    /\ last.kind = "read" /\ last.status \in ErrStatuses
    /\ last.comp \in {"rest", "graph"}
    /\ last.op \in {"download_file", "download_excel_file"}
    /\ last.ret \in {None, PyFalse}

(***************************************************************************)
(* C4                                                                      *)
(***************************************************************************)
\* C4 as stated: in every operation of every session component a transport
\* fault, a non-200 response, a malformed or unexpected body and a local
\* file system fault are caught inside the operation and turned into a
\* None / empty / False result; none is raised to the caller.
C4_AsStated ==
    (last.fault \in FourFaultKinds) =>
        /\ ~last.raised
        /\ last.ret \in {None, EmptyDict, EmptyList, PyFalse}

\* C4 amended: the token acquisitions (both get_access_token, both
\* authenticate) and the resource-context reads that carry their own
\* try/except turn every fault into None / [] / False.  A legacy REST read
\* and a Graph read turn only a non-200 response into their empty value: a
\* transport fault, a 200 body that is not JSON and (download_excel_file) a
\* local file system fault reach the caller as an exception.  get_excel_files
\* raises when a file record has no name.
C4_Amended ==
    /\ last.raised <=>
          \/ /\ last.kind = "read" /\ last.comp \in {"rest", "graph"}
             /\ last.fault \in {"transport", "body", "fs"}
          \/ /\ last.comp = "o365" /\ last.op = "get_excel_files"
             /\ last.fault = "shape"
    /\ (last.fault \in FourFaultKinds /\ ~last.raised) =>
          last.ret \in {None, EmptyDict, EmptyList, PyFalse}

\* A Graph download whose 200 answer could not be written to disk raised.
C4_Witness ==
    /\ last.comp = "graph" /\ last.op = "download_excel_file"
    /\ last.status = HTTP_OK /\ last.fault = "fs" /\ last.raised

(***************************************************************************)
(* C5                                                                      *)
(***************************************************************************)
\* C5: legacy get_access_token makes exactly one POST and never raises; on
\* HTTP 200 the body's access_token is cached and returned; on any other
\* status or a transport fault it returns None and the cached token is what
\* it was before the call.  (A 200 body without an access_token also gives
\* None and leaves the cache alone.)
C5_LegacyAcquire ==
    (last.comp = "legacy" /\ last.op = "get_access_token") =>
        /\ Len(last.reqs) = 1 /\ last.reqs[1].method = "POST"
        /\ ~last.raised
        /\ (last.status = HTTP_OK /\ last.offered # None) =>
              last.ret = last.offered /\ la_token = last.offered
        /\ (last.status # HTTP_OK \/ last.offered = None) =>
              last.ret = None /\ la_token = last.entry

\* A failed re-acquisition (non-200 whose body even carried a token) with a
\* token cached from before.
C5_Witness ==
    /\ last.comp = "legacy" /\ last.op = "get_access_token"
    /\ last.status \in ErrStatuses /\ last.offered # None
    /\ Truthy(last.entry) /\ la_token = last.entry /\ last.ret = None

C7_AuthenticateResult ==
    (last.op = "authenticate") =>
        /\ ~last.raised
        /\ last.ret \in {PyTrue, PyFalse}
        /\ (last.ret = PyTrue) =>
              Did(last.calls, "load") /\ Did(last.calls, "execute")
        /\ ~Did(last.calls, "execute") => last.ret = PyFalse

\* The username/password variant failing in its validation round trip.
C7_Witness ==
    /\ last.comp = "user" /\ last.op = "authenticate"
    /\ Did(last.calls, "load") /\ ~Did(last.calls, "execute")
    /\ last.ret = PyFalse

(***************************************************************************)
(* C8                                                                      *)
(***************************************************************************)
\* C8 as stated: a session becomes authenticated only through a successful
\* acquisition: after an acquire/authenticate call on a fresh session that
\* reports failure (None or False) the token/ctx is still unset, and a
\* resource-context session that never authenticated successfully answers
\* its reads on the not-authenticated path (no round trip, empty value).
C8_AsStated ==
    /\ (last.kind = "acquire" /\ ~Truthy(last.entry)
        /\ last.ret \in {None, PyFalse}) => ~Truthy(TokenOf(last.comp))
    /\ (last.comp = "o365" /\ last.kind = "read" /\ "o365" \notin authed) =>
          /\ Len(last.reqs) = 0
          /\ last.ret = EmptyOf(ReturnType(last.comp, last.op))

(***************************************************************************)
(* C9                                                                      *)
(***************************************************************************)
\* C9: once the token (or ctx) of a session is set, no call of that session
\* unsets it: read, failed read or failed re-acquisition.
C9_AuthenticatedIsStable ==
    [][ /\ Truthy(la_token) => Truthy(la_token')
        /\ Truthy(g_token) => Truthy(g_token')
        /\ Truthy(o_ctx) => Truthy(o_ctx')
        /\ Truthy(u_ctx) => Truthy(u_ctx') ]_vars

\* A failed re-acquisition on a Graph session that already held a token.
C9_Witness ==
    /\ last.comp = "graph" /\ last.kind = "acquire"
    /\ Truthy(last.entry) /\ last.ret = None /\ g_token = last.entry

(***************************************************************************)
(* C10                                                                     *)
(***************************************************************************)
\* C10: Graph get_access_token asks acquire_token_silent first, asks
\* acquire_token_for_client exactly when the silent answer was empty, caches
\* and returns the token exactly when the final answer holds an
\* access_token, and otherwise returns None with the cached token unchanged.
C10_SilentThenGrant ==
    (last.comp = "graph" /\ last.op = "get_access_token") =>
        LET n     == Len(last.calls)
            final == last.calls[n]
        IN /\ n \in {1, 2}
           /\ last.calls[1].fn = "silent"
           /\ (n = 2) <=> last.calls[1].kind \in {"none", "empty"}
           /\ (n = 2) => last.calls[2].fn = "grant"
           /\ (final.kind = "token") =>
                 last.ret = final.access_token /\ g_token = final.access_token
           /\ (final.kind # "token") =>
                 last.ret = None /\ g_token = last.entry
           /\ ~last.raised

\* The silent attempt came back empty and the client-credentials grant
\* delivered the token.
C10_Witness ==
    /\ last.comp = "graph" /\ last.op = "get_access_token"
    /\ Len(last.calls) = 2 /\ last.calls[1].kind = "empty"
    /\ last.calls[2].kind = "token" /\ last.ret = last.calls[2].access_token
    /\ g_token = last.ret

(***************************************************************************)
(* C11                                                                     *)
(***************************************************************************)
\* The steps of the latest call that invoked fn.
StepsOf(fn) == {i \in 1..Len(last.calls) : last.calls[i].fn = fn}

\* C11: in download_and_read_excel the spreadsheet parser is invoked only
\* directly after a download_file that returned True; when download_file
\* returned False the call returns None and the parser is not invoked.
C11_ParserOnlyAfterDownload ==
    (last.comp = "o365" /\ last.op = "download_and_read_excel") =>
        /\ \A i \in StepsOf("read_excel") :
              /\ i > 1
              /\ last.calls[i - 1] = Step("download_file", PyTrue)
        /\ (\E i \in StepsOf("download_file") : last.calls[i].ret = PyFalse)
              => (last.ret = None /\ StepsOf("read_excel") = {})
        /\ Cardinality(StepsOf("download_file")) <= 1

\* A download that wrote the temporary file and then failed on the round
\* trip: download_file returned False and the parser was left alone.
C11_Witness ==
    /\ last.comp = "o365" /\ last.op = "download_and_read_excel"
    /\ last.calls = <<Step("download_file", PyFalse)>>
    /\ last.fault = "status" /\ last.ret = None

(***************************************************************************)
(* C15                                                                     *)
(***************************************************************************)
\* C15: a download_and_read_excel step removes the temporary file exactly
\* when it returns a table: then os.remove ran and the file is gone; when
\* the download succeeded and the parser raised it returns None and the
\* file is present; whenever no table is returned a temporary file that was
\* present stays present; no other file is touched.
C15_TempFileRemovedOnSuccessOnly ==
    [][ (last'.comp = "o365" /\ last'.op = "download_and_read_excel") =>
          LET steps == last'.calls
              n     == Len(steps)
          IN /\ (last'.ret = RetTable) =>
                   /\ TmpPath \notin files'
                   /\ n = 3 /\ steps[3] = Step("remove", None)
             /\ (n = 2 /\ steps[1] = Step("download_file", PyTrue)
                 /\ steps[2] = Step("read_excel", Raised)) =>
                   (last'.ret = None /\ TmpPath \in files')
             /\ (last'.ret # RetTable /\ TmpPath \in files) =>
                   TmpPath \in files'
             /\ files' \ {TmpPath} = files \ {TmpPath}
      ]_vars

\* The download succeeded, the parser raised: None came back and the
\* temporary file is left on disk.
C15_Witness ==
    /\ last.comp = "o365" /\ last.op = "download_and_read_excel"
    /\ last.calls = <<Step("download_file", PyTrue),
                      Step("read_excel", Raised)>>
    /\ last.ret = None
    /\ TmpPath \in files

(***************************************************************************)
(* C16                                                                     *)
(***************************************************************************)
\* C16: a read made with a token already cached makes no acquisition
\* attempt (no token POST, no MSAL call) and leaves the cached token as it
\* was, whatever the status of the answer, 401 included.
C16_CachedTokenNeverRefreshed ==
    (last.kind = "read" /\ last.comp \in {"rest", "graph"}
     /\ Truthy(last.entry)) =>
        /\ last.acquires = 0
        /\ \A i \in 1..Len(last.calls) :
              last.calls[i].fn \notin {"silent", "grant"}
        /\ \A i \in 1..Len(last.reqs) : last.reqs[i].method # "POST"
        /\ TokenOf(last.comp) = last.entry

\* A Graph read with a cached token answered 401: the token is still the
\* one the call started with.
C16_Witness ==
    /\ last.kind = "read" /\ last.comp = "graph"
    /\ Truthy(last.entry)
    /\ last.status = 401
    /\ g_token = last.entry
    /\ Len(last.reqs) = 1

(***************************************************************************)
(* C17                                                                     *)
(***************************************************************************)
\* C17: create_client_context attempts acquisition at most once, and
\* exactly when no token was cached on entry; it returns a client context
\* exactly when a token is cached afterwards, built on that token; when the
\* acquisition failed it returns None; it does not raise.
C17_CreateClientContext ==
    (last.comp = "legacy" /\ last.op = "create_client_context") =>
        /\ last.acquires \in {0, 1}
        /\ Len(last.reqs) = last.acquires
        /\ (last.acquires = 1) <=> ~Truthy(last.entry)
        /\ (last.ret = RetCtx) <=> Truthy(la_token)
        /\ (last.ret = RetCtx) => last.calls = <<la_token>>
        /\ ~Truthy(la_token) => last.ret = None
        /\ Truthy(last.entry) => la_token = last.entry
        /\ ~last.raised

\* No token was cached, the one acquisition attempt was refused, and None
\* came back.
C17_Witness ==
    /\ last.comp = "legacy" /\ last.op = "create_client_context"
    /\ ~Truthy(last.entry)
    /\ last.acquires = 1 /\ last.fault = "status"
    /\ la_token = None /\ last.ret = None

(***************************************************************************)
(* C12                                                                     *)
(***************************************************************************)
Least(S) == CHOOSE x \in S : \A y \in S : x <= y

\* Where 'realm="' begins in a header, and the '"' that follow one of them.
RealmStarts(h) ==
    {i \in 1..(Len(h) - 2) :
        h[i] = "realm" /\ h[i + 1] = "=" /\ h[i + 2] = Quote}
QuotesAfter(h, i) == {j \in (i + 3)..Len(h) : h[j] = Quote}

\* The header of the realm response, when a response with that header came.
HeaderSeen ==
    io.response.net = "ok" /\ io.response.has_header

\* C12: _get_realm returns the text between 'realm="' and the
\* next '"' when the header carries such an attribute, and otherwise the
\* first label of the site URL's host followed by '.sharepoint.com'; it
\* never raises.
C12_AsStated ==
    (io.op = "SharePointAppOnlyAuth" /\ io.done /\ io.ret.realm_calls = 1) =>
        LET h == io.response.header
            carries == /\ HeaderSeen
                       /\ \E i \in RealmStarts(h) : QuotesAfter(h, i) # {}
            i0 == Least(RealmStarts(h))
            j0 == Least(QuotesAfter(h, i0))
        IN /\ ~io.ret.realm_raised
           /\ io.ret.realm =
                 IF carries THEN SubSeq(h, i0 + 3, j0 - 1)
                 ELSE <<io.site.host[1]>> \o SharePointCom

\* The site URL https://intranet/sites/teamsite and a realm request that
\* fails: the tenant is taken to be everything after '//', the host has no
\* '.', and the realm returned is intranet/sites/teamsite.sharepoint.com.
C12_FailingInput ==
    /\ io.op = "SharePointAppOnlyAuth" /\ io.done
    /\ io.ret.realm_calls = 1
    /\ io.site.host = <<"intranet">>
    /\ io.site.path = <<"/", "sites", "/", "teamsite">>
    /\ io.response.net = "fault"
    /\ io.ret.realm = <<"intranet", "/", "sites", "/", "teamsite">>
                         \o SharePointCom

(***************************************************************************)
(* C13                                                                     *)
(***************************************************************************)
\* C13: when get_document_libraries has loaded the collection, its result
\* is the order-preserving filter of the collection by template 101: there
\* is a strictly increasing map from the result's positions onto the
\* positions of the lists with template 101, and each record carries the
\* title, id, item count and view URL of the list it stands for.
C13_OrderPreservingFilter ==
    (io.op = "get_document_libraries" /\ io.done
     /\ Truthy(io.ctx) /\ io.q.fault = "none") =>
        LET coll == io.lists
            out  == io.ret.ret
            libs == {i \in 1..Len(coll) : coll[i].base_template = 101}
        IN \E f \in [1..Len(out) -> 1..Len(coll)] :
              /\ \A k \in 1..Len(out) : \A m \in 1..Len(out) :
                    k < m => f[k] < f[m]
              /\ {f[k] : k \in 1..Len(out)} = libs
              /\ \A k \in 1..Len(out) :
                    /\ out[k].id = coll[f[k]].id
                    /\ out[k].title = coll[f[k]].title
                    /\ out[k].item_count = coll[f[k]].item_count
                    /\ out[k].server_relative_url = coll[f[k]].default_view_url

\* A collection of a document library, a generic list and another
\* document library: the first and the third come back, in that order.
C13_Witness ==
    /\ io.op = "get_document_libraries" /\ io.done
    /\ Truthy(io.ctx) /\ io.q.fault = "none"
    /\ Len(io.lists) = 3
    /\ io.lists[1].base_template = 101
    /\ io.lists[2].base_template = 100
    /\ io.lists[3].base_template = 101
    /\ Len(io.ret.ret) = 2
    /\ io.ret.ret[1].id = 1 /\ io.ret.ret[2].id = 3

(***************************************************************************)
(* C14                                                                     *)
(***************************************************************************)
\* C14: for a site URL scheme://host/path (whatever ;params, ?query or
\* #fragment follow the path) get_site_by_url sends exactly one GET, to
\* <graph endpoint>/sites/<host>:<path>, host and path as they stand in the
\* URL.
C14_SiteIdentifier ==
    (io.op = "get_site_by_url" /\ io.done) =>
        /\ Len(io.ret.reqs) = 1
        /\ io.ret.reqs[1].method = "GET"
        /\ io.ret.reqs[1].url =
              <<"https", ":", "/", "/", "graph.microsoft.com", "/", "v1.0",
                "/", "sites", "/">> \o io.site.host \o <<":">> \o io.site.path

\* https://contoso.sharepoint.com/sites/teamsite is asked for as
\* contoso.sharepoint.com:/sites/teamsite.
C14_Witness ==
    /\ io.op = "get_site_by_url" /\ io.done
    /\ io.site = [host |-> <<"contoso", ".", "sharepoint", ".", "com">>,
                  path |-> <<"/", "sites", "/", "teamsite">>,
                  suffix |-> <<>>]
    /\ io.ret.reqs[1].url =
          <<"https", ":", "/", "/", "graph.microsoft.com", "/", "v1.0",
            "/", "sites", "/", "contoso", ".", "sharepoint", ".", "com",
            ":", "/", "sites", "/", "teamsite">>

============================================================================
